---- MODULE Spec2Model ----
(***************************************************************************)
(* Model of src/js/pdfParser.js: the lazily provisioned pdf.js worker      *)
(* (ensurePdfWorker), the page-by-page text extraction (extractPdfText)    *)
(* and its progress reporting.                                             *)
(*                                                                         *)
(* An async function runs synchronously up to its next await, so one       *)
(* action is the code between two suspension points; the environment       *)
(* (fetch, file.arrayBuffer, getDocument, getPage, getTextContent,         *)
(* getMetadata) settles each pending operation with an outcome drawn from  *)
(* a small set.  Strings that the code inspects are sequences (of words    *)
(* for messages, of characters for page text), '' being <<>>.              *)
(***************************************************************************)
EXTENDS Integers, Sequences, FiniteSets, TLC

\* -------------------------------------------------------------- bounds
\* Largest page count of a document when one caller runs alone.
MaxPages == 3
\* Largest page count of a document when two callers run concurrently.
MaxPagesConc == 1
\* Largest page count for which the progress arithmetic is enumerated.
MaxProgressPages == 110
\* Largest number of pages given to harvestTables.
MaxHarvestPages == 2

\* The callers of extractPdfText.
Procs == {1, 2}

\* ------------------------------------------------------------ constants
PDF_WORKER_SOURCE == "https://cdnjs.cloudflare.com/ajax/libs/pdf.js/3.4.120/pdf.worker.min.js"

\* A falsy location: undefined, null or ''.
Unset == ""
ExternalWorker == "external-worker.js"
CachedBlob == "blob:cached"
NewBlob == "blob:new"

VARIABLES
    libPresent,             \* window.pdfjsLib is loaded
    canInlineWorker,        \* fetch, Blob and URL.createObjectURL exist
    workerSrc,              \* pdfjsLib.GlobalWorkerOptions.workerSrc
    blobUrl,                \* window.__pdfWorkerBlobUrl
    disableWorker,          \* pdfjsLib.disableWorker: "undefined", "false", "true"
    pdfWorkerReadyPromise,  \* "null", "pending", "resolved"
    prov,                   \* the provisioning closure: position and history
    file,                   \* file[p]: the input of caller p
    onProgress,             \* onProgress[p]: caller p supplied a callback
    call,                   \* call[p]: caller p's extractPdfText invocation
    callbackThrows,         \* callbackThrows[p]: caller p's callback can throw
    harvest                 \* the pages given to harvestTables, and its result

vars == <<libPresent, canInlineWorker, workerSrc, blobUrl, disableWorker,
          pdfWorkerReadyPromise, prov, file, onProgress, call, callbackThrows,
          harvest>>

env == <<libPresent, canInlineWorker, file, onProgress, callbackThrows, harvest>>

\* ------------------------------------------------------------- messages
Err(msg) == [isError |-> TRUE, message |-> msg]
NonErr(msg) == [isError |-> FALSE, message |-> msg]

LibraryMissing == Err(<<"PDF.js", "library", "not", "loaded">>)
ReadFailed == Err(<<"file", "could", "not", "be", "read">>)
CallbackFailed == Err(<<"callback", "failed">>)
MetadataFailed == Err(<<"no", "metadata">>)

Lower(w) ==
    CASE w \in {"Setting", "SETTING"} -> "setting"
      [] w \in {"UP", "Up"} -> "up"
      [] w \in {"FAKE", "Fake"} -> "fake"
      [] w \in {"WORKER", "Worker"} -> "worker"
      [] w \in {"FAILED", "Failed"} -> "failed"
      [] w \in {"Cannot", "CANNOT"} -> "cannot"
      [] w \in {"Load", "LOAD"} -> "load"
      [] w \in {"Script", "SCRIPT"} -> "script"
      [] OTHER -> w

\* pattern occurs in msg at offset i (1-based), ignoring case
MatchesAt(msg, pattern, i) ==
    /\ i + Len(pattern) - 1 <= Len(msg)
    /\ \A k \in 1..Len(pattern) : Lower(msg[i + k - 1]) = Lower(pattern[k])

\* /pattern/i.test(msg): an unanchored, case-insensitive match
RegexTestI(pattern, msg) == \E i \in 1..Len(msg) : MatchesAt(msg, pattern, i)

\* error instanceof Error ? error.message : String(error); a thrown value
\* that is no Error is kept as the text String() gives it
OpenMessage(error) == error.message

RetryOnAnyFailure(error) == TRUE

\* lines 58-59: the open failure is a worker-initialization failure
workerFailed(error) ==
    \/ RegexTestI(<<"Setting", "up", "fake", "worker", "failed">>, OpenMessage(error))
    \/ RegexTestI(<<"Cannot", "load", "script">>, OpenMessage(error))

\* What getDocument may reject with.
OpenThrown ==
    { Err(<<"Setting", "up", "fake", "worker", "failed", ":", "x">>),
      Err(<<"Error", ":", "SETTING", "UP", "FAKE", "WORKER", "FAILED">>),
      Err(<<"Cannot", "load", "script", "at", "u">>),
      NonErr(<<"cannot", "load", "script">>),
      Err(<<"Setting", "up", "worker", "failed">>),
      Err(<<"Invalid", "PDF", "structure">>),
      Err(<<>>) }

\* What getPage or getTextContent may reject with.
PageThrown == { Err(<<"boom">>), Err(<<>>), NonErr(<<"oops">>) }

\* --------------------------------------------------------- page text
IsSpace(c) == c \in {" ", "\n", "\t"}

Item(s) == [hasStr |-> TRUE, str |-> s]
NoStrItem == [hasStr |-> FALSE, str |-> <<>>]

\* item.str || ''
ItemStr(item) == IF item.hasStr THEN item.str ELSE <<>>

RECURSIVE JoinItems(_)
\* items.map(item => item.str || '').join(' ')
JoinItems(items) ==
    IF Len(items) = 0 THEN <<>>
    ELSE IF Len(items) = 1 THEN ItemStr(items[1])
    ELSE ItemStr(items[1]) \o <<" ">> \o JoinItems(Tail(items))

RECURSIVE CollapseSpaces(_)
\* .replace(/\s+/g, ' ')
CollapseSpaces(s) ==
    IF Len(s) = 0 THEN <<>>
    ELSE IF IsSpace(s[1])
         THEN IF Len(s) > 1 /\ IsSpace(s[2])
              THEN CollapseSpaces(Tail(s))
              ELSE <<" ">> \o CollapseSpaces(Tail(s))
         ELSE <<s[1]>> \o CollapseSpaces(Tail(s))

RECURSIVE TrimLeft(_)
TrimLeft(s) == IF Len(s) > 0 /\ IsSpace(s[1]) THEN TrimLeft(Tail(s)) ELSE s

RECURSIVE TrimRight(_)
TrimRight(s) ==
    IF Len(s) > 0 /\ IsSpace(s[Len(s)]) THEN TrimRight(SubSeq(s, 1, Len(s) - 1)) ELSE s

\* .trim()
Trim(s) == TrimRight(TrimLeft(s))

\* line 77
PageText(items) == Trim(CollapseSpaces(JoinItems(items)))

\* What getTextContent may resolve with (content.items).
PageContents ==
    { << Item(<<" ", "a">>), Item(<<"b", "\n">>) >>,
      << Item(<<" ">>), NoStrItem >>,
      << >> }

ZeroBasedIndex(pageIndex) == pageIndex

\* lines 79 and 86: index: pageIndex - 1
PageResultIndex(pageIndex) == pageIndex - 1

ParsedPageFlagFromRawText(pageIndex, items) ==
    [index |-> PageResultIndex(pageIndex),
     text |-> PageText(items),
     hasTextContent |-> JoinItems(items) # <<>>,
     hasError |-> FALSE,
     error |-> <<>>]

\* lines 78-82
ParsedPage(pageIndex, items) ==
    [index |-> PageResultIndex(pageIndex),
     text |-> PageText(items),
     hasTextContent |-> PageText(items) # <<>>,
     hasError |-> FALSE,
     error |-> <<>>]

\* line 89: error instanceof Error ? error.message : 'Unknown parsing error'
PageErrorMessage(error) ==
    IF error.isError THEN error.message ELSE <<"Unknown", "parsing", "error">>

\* lines 85-90
FailedPage(pageIndex, error) ==
    [index |-> PageResultIndex(pageIndex),
     text |-> <<>>,
     hasTextContent |-> FALSE,
     hasError |-> TRUE,
     error |-> PageErrorMessage(error)]

\* ------------------------------------------------------------ progress
\* The quotients pageIndex / totalPages (in lowest terms, totalPages up to
\* 250) whose IEEE-754 double, times 100, lies just below the exact half
\* that the real quotient gives: 23/40*100 is 57.49999999999999.
DoubleBelowHalf(pageIndex, totalPages) ==
    \E q \in {<<23, 40>>, <<29, 200>>, <<57, 200>>, <<113, 200>>} :
        pageIndex * q[2] = totalPages * q[1]

PercentOfPreviousPage(pageIndex, totalPages) ==
    (200 * (pageIndex - 1) + totalPages) \div (2 * totalPages)

\* line 94: Math.round((pageIndex / totalPages) * 100); Math.round rounds an
\* exact half up
ProgressPercent(pageIndex, totalPages) ==
    LET exact == (200 * pageIndex + totalPages) \div (2 * totalPages)
    IN  IF DoubleBelowHalf(pageIndex, totalPages) THEN exact - 1 ELSE exact

\* ------------------------------------------------- metadata and title
\* What getMetadata resolves with: null, or an object that may hold info;
\* an info field that is undefined or '' is <<>> (both are falsy).
Metadata(title, author) ==
    [isNull |-> FALSE, hasInfo |-> TRUE, title |-> title, author |-> author]
NullMetadata == [isNull |-> TRUE, hasInfo |-> FALSE, title |-> <<>>, author |-> <<>>]

\* line 98: {} , what || puts in the place of a falsy resolution
NoInfoMetadata == [isNull |-> FALSE, hasInfo |-> FALSE, title |-> <<>>, author |-> <<>>]

\* line 98: ({ info: {}, metadata: {} }), what catch puts in the place of a
\* rejection
EmptyMetadata == Metadata(<<>>, <<>>)

Resolved(meta) == [rejected |-> FALSE, value |-> meta]
Rejected == [rejected |-> TRUE, value |-> NullMetadata]

\* line 98: (await pdf.getMetadata().catch(() => (...))) || {}
titleMeta(outcome) ==
    IF outcome.rejected THEN EmptyMetadata
    ELSE IF outcome.value.isNull THEN NoInfoMetadata
    ELSE outcome.value

\* titleMeta.info?.Title
InfoTitle(meta) == IF meta.hasInfo THEN meta.title ELSE <<>>

\* titleMeta.info?.Author
InfoAuthor(meta) == IF meta.hasInfo THEN meta.author ELSE <<>>

LowerChar(c) ==
    CASE c = "P" -> "p"
      [] c = "D" -> "d"
      [] c = "F" -> "f"
      [] OTHER -> c

StripLowercasePdf(name) ==
    IF Len(name) >= 4 /\ SubSeq(name, Len(name) - 3, Len(name)) = <<".", "p", "d", "f">>
    THEN SubSeq(name, 1, Len(name) - 4)
    ELSE name

\* line 99: file.name.replace(/\.pdf$/i, '')
StripPdfSuffix(name) ==
    IF /\ Len(name) >= 4
       /\ name[Len(name) - 3] = "."
       /\ LowerChar(name[Len(name) - 2]) = "p"
       /\ LowerChar(name[Len(name) - 1]) = "d"
       /\ LowerChar(name[Len(name)]) = "f"
    THEN SubSeq(name, 1, Len(name) - 4)
    ELSE name

\* line 99: titleMeta.info?.Title || file.name.replace(...)
Title(meta, name) ==
    IF InfoTitle(meta) # <<>> THEN InfoTitle(meta) ELSE StripPdfSuffix(name)

UnknownAuthor == <<"Unknown author">>

AuthorAsGiven(meta) == InfoAuthor(meta)

\* line 105: titleMeta.info?.Author || 'Unknown author'
Author(meta) ==
    IF InfoAuthor(meta) # <<>> THEN InfoAuthor(meta) ELSE UnknownAuthor

\* ------------------------------------------------------- provisioning
LibraryAssumedLoaded == TRUE

\* lines 8 and 47: window.pdfjsLib is truthy
LibraryLoaded == libPresent

ReadyPromiseExists == pdfWorkerReadyPromise # "null"

\* lines 11-12: GlobalWorkerOptions.workerSrc is truthy
WorkerConfigured == workerSrc # Unset

ProvisionOnEveryCall == TRUE

\* line 15: !pdfWorkerReadyPromise
NeedsProvisioning == pdfWorkerReadyPromise = "null"

CachedBlobOnly == blobUrl

\* line 39: window.__pdfWorkerBlobUrl || PDF_WORKER_SOURCE
FallbackWorkerSrc == IF blobUrl # Unset THEN blobUrl ELSE PDF_WORKER_SOURCE

NoProvisioning ==
    [pc |-> "none", starts |-> 0, fetchCalls |-> 0, outcome |-> "none"]

\* lines 16-24: the closure starts and runs to its first await, or, where the
\* worker cannot be inlined, runs line 39 and completes at once
StartProvisioning ==
    IF canInlineWorker
    THEN /\ prov' = [prov EXCEPT !.pc = "fetching", !.starts = @ + 1,
                                 !.fetchCalls = @ + 1]
         /\ pdfWorkerReadyPromise' = "pending"
         /\ UNCHANGED <<workerSrc, blobUrl>>
    ELSE /\ prov' = [prov EXCEPT !.pc = "done", !.starts = @ + 1,
                                 !.outcome = "unsupported"]
         /\ workerSrc' = FallbackWorkerSrc
         /\ pdfWorkerReadyPromise' = "resolved"
         /\ UNCHANGED blobUrl

\* lines 34-39: the catch block, then the fallback assignment
FallBack ==
    /\ prov' = [prov EXCEPT !.pc = "done", !.outcome = "failed"]
    /\ workerSrc' = FallbackWorkerSrc
    /\ pdfWorkerReadyPromise' = "resolved"
    /\ UNCHANGED blobUrl

\* lines 24-28: fetch settles; a rejection or a non-ok status is caught
FetchSettles ==
    /\ prov.pc = "fetching"
    /\ \E outcome \in {"ok", "http-error", "network-error"} :
          IF outcome = "ok"
          THEN /\ prov' = [prov EXCEPT !.pc = "reading"]
               /\ UNCHANGED <<workerSrc, blobUrl, pdfWorkerReadyPromise>>
          ELSE FallBack
    /\ UNCHANGED <<env, disableWorker, call>>

\* lines 28-33: response.text() settles, then Blob and createObjectURL
ScriptSettles ==
    /\ prov.pc = "reading"
    /\ \E outcome \in {"ok", "text-error", "blob-error"} :
          IF outcome = "ok"
          THEN /\ blobUrl' = NewBlob
               /\ workerSrc' = NewBlob
               /\ prov' = [prov EXCEPT !.pc = "done", !.outcome = "inlined"]
               /\ pdfWorkerReadyPromise' = "resolved"
          ELSE FallBack
    /\ UNCHANGED <<env, disableWorker, call>>

\* --------------------------------------------------------- extraction
Startable == {"idle", "done", "failed"}

\* the locals of one invocation of extractPdfText, with what it has done
NewCall ==
    [pc |-> "idle", thrown |-> <<>>, bytesRead |-> FALSE,
     openAttempts |-> 0, openErrors |-> <<>>, switchAtOpen |-> <<>>,
     workerAtOpen |-> <<>>, totalPages |-> 0, pageIndex |-> 0,
     pageRequests |-> 0, pages |-> <<>>, progress |-> <<>>,
     cleanups |-> 0, result |-> <<>>,
     opened |-> FALSE, requested |-> <<>>, metadataRequests |-> 0,
     metadataRejected |-> FALSE, metadataOutcome |-> <<>>, cleanupSaw |-> <<>>]

Throw(c, error) == [c EXCEPT !.pc = "failed", !.thrown = <<error>>]

DocumentOfFirstCaller(p) == file[1]

\* lines 46 and 53-56: the file caller p passed, and the document in it
DocumentOf(p) == file[p]

ResumesWithoutAwait(p) == call[p].pc \in {"ensureReturned", "awaitWorker"}

\* lines 13, 43 and 51: ensurePdfWorker's promise has resolved for caller p
WorkerAwaited(p) ==
    \/ call[p].pc = "ensureReturned"
    \/ call[p].pc = "awaitWorker" /\ pdfWorkerReadyPromise = "resolved"

\* lines 46-51 and 7-43: the call up to its first suspension
Call(p) ==
    /\ call[p].pc \in Startable
    /\ IF ~LibraryLoaded
       THEN /\ call' = [call EXCEPT ![p] = Throw(NewCall, LibraryMissing)]
            /\ UNCHANGED <<workerSrc, blobUrl, pdfWorkerReadyPromise, prov>>
       ELSE IF WorkerConfigured
       THEN /\ call' = [call EXCEPT ![p] = [NewCall EXCEPT !.pc = "ensureReturned"]]
            /\ UNCHANGED <<workerSrc, blobUrl, pdfWorkerReadyPromise, prov>>
       ELSE /\ call' = [call EXCEPT ![p] = [NewCall EXCEPT !.pc = "awaitWorker"]]
            /\ IF NeedsProvisioning
               THEN StartProvisioning
               ELSE UNCHANGED <<workerSrc, blobUrl, pdfWorkerReadyPromise, prov>>
    /\ UNCHANGED <<env, disableWorker>>

\* lines 43, 51-53: ensurePdfWorker has returned; file.arrayBuffer() is called
ReadFile(p) ==
    /\ WorkerAwaited(p)
    /\ call' = [call EXCEPT ![p] = [@ EXCEPT !.pc = "readBytes", !.bytesRead = TRUE]]
    /\ UNCHANGED <<env, workerSrc, blobUrl, disableWorker, pdfWorkerReadyPromise, prov>>

\* lines 56 and 68: getDocument({ data }) is called
IssueOpen(c, pc, switch) ==
    [c EXCEPT !.pc = pc, !.openAttempts = @ + 1,
              !.switchAtOpen = Append(@, switch),
              !.workerAtOpen = Append(@, workerSrc)]

\* lines 53-56: the bytes arrive (or the read rejects) and the open is issued
BytesSettle(p) ==
    /\ call[p].pc = "readBytes"
    /\ \E ok \in BOOLEAN :
          call' = [call EXCEPT ![p] =
                     IF ok THEN IssueOpen(@, "open1", disableWorker) ELSE Throw(@, ReadFailed)]
    /\ UNCHANGED <<env, workerSrc, blobUrl, disableWorker, pdfWorkerReadyPromise, prov>>

NextPageButOne(c) ==
    IF c.pageIndex + 2 <= c.totalPages
    THEN [c EXCEPT !.pageIndex = @ + 2, !.pageRequests = @ + 1,
                   !.requested = Append(@, c.pageIndex + 2), !.pc = "getPage"]
    ELSE [c EXCEPT !.pageIndex = @ + 2, !.metadataRequests = @ + 1,
                   !.pc = "getMetadata"]

\* line 73 (and the loop's exit to line 98): the next getPage, or getMetadata
NextPage(c) ==
    IF c.pageIndex + 1 <= c.totalPages
    THEN [c EXCEPT !.pageIndex = @ + 1, !.pageRequests = @ + 1,
                   !.requested = Append(@, c.pageIndex + 1), !.pc = "getPage"]
    ELSE [c EXCEPT !.pageIndex = @ + 1, !.metadataRequests = @ + 1,
                   !.pc = "getMetadata"]

\* lines 70-73
Opened(c, numPages) ==
    NextPage([c EXCEPT !.opened = TRUE, !.totalPages = numPages,
                       !.pageIndex = 0, !.pages = <<>>])

LeaveSwitch(value) == value

ToggleSwitch(value) ==
    IF value = "false" THEN "true" ELSE IF value = "true" THEN "false" ELSE value

\* lines 65-67: typeof disableWorker === 'boolean' ? true : untouched
SwitchAfterWorkerFailure(value) ==
    IF value \in {"false", "true"} THEN "true" ELSE value

\* lines 56-68: the first open settles
OpenSettles(p) ==
    /\ call[p].pc = "open1"
    /\ \/ /\ call' = [call EXCEPT ![p] = Opened(@, DocumentOf(p).numPages)]
          /\ UNCHANGED disableWorker
       \/ \E error \in DocumentOf(p).openFaults :
             IF workerFailed(error)
             THEN /\ disableWorker' = SwitchAfterWorkerFailure(disableWorker)
                  /\ call' = [call EXCEPT ![p] =
                                IssueOpen([@ EXCEPT !.openErrors = Append(@, error)],
                                          "open2", disableWorker')]
             ELSE /\ call' = [call EXCEPT ![p] =
                                Throw([@ EXCEPT !.openErrors = Append(@, error)], error)]
                  /\ UNCHANGED disableWorker
    /\ UNCHANGED <<env, workerSrc, blobUrl, pdfWorkerReadyPromise, prov>>

\* line 68: the retried open settles; a rejection leaves the function
RetrySettles(p) ==
    /\ call[p].pc = "open2"
    /\ \/ call' = [call EXCEPT ![p] = Opened(@, DocumentOf(p).numPages)]
       \/ \E error \in DocumentOf(p).openFaults :
             call' = [call EXCEPT ![p] =
                        Throw([@ EXCEPT !.openErrors = Append(@, error)], error)]
    /\ UNCHANGED <<env, workerSrc, blobUrl, disableWorker, pdfWorkerReadyPromise, prov>>

\* what onProgress is handed, with what its caller can see at that moment
Report(c, percent) ==
    [c EXCEPT !.progress = Append(@, [percent |-> percent,
                                      resultsSeen |-> Len(c.pages),
                                      requestsSeen |-> c.pageRequests])]

ReportBeforePush(c, res, supplied, percent) ==
    LET reported == IF supplied THEN Report(c, percent) ELSE c
    IN  [reported EXCEPT !.pages = Append(@, res)]

\* lines 78-95: the page's result is pushed, then onProgress is called
PageSettled(c, res, supplied, percent) ==
    LET pushed == [c EXCEPT !.pages = Append(@, res)]
    IN  IF supplied THEN Report(pushed, percent) ELSE pushed

\* lines 78-96: one iteration's end, up to the next await; an exception
\* thrown by the callback (line 94 is outside the try) leaves the function
FinishPage(p, res) ==
    /\ LET settled == PageSettled(call[p], res, onProgress[p],
                                  ProgressPercent(call[p].pageIndex,
                                                  call[p].totalPages))
       IN  \/ call' = [call EXCEPT ![p] = NextPage(settled)]
           \/ /\ onProgress[p] /\ callbackThrows[p]
              /\ call' = [call EXCEPT ![p] = Throw(settled, CallbackFailed)]
    /\ UNCHANGED <<env, workerSrc, blobUrl, disableWorker, pdfWorkerReadyPromise, prov>>

\* line 75: getPage settles
GetPageSettles(p) ==
    /\ call[p].pc = "getPage"
    /\ \/ /\ call' = [call EXCEPT ![p] = [@ EXCEPT !.pc = "getTextContent"]]
          /\ UNCHANGED <<env, workerSrc, blobUrl, disableWorker,
                         pdfWorkerReadyPromise, prov>>
       \/ \E error \in DocumentOf(p).pageFaults :
                FinishPage(p, FailedPage(call[p].pageIndex, error))

\* lines 76-91: getTextContent settles
GetTextContentSettles(p) ==
    /\ call[p].pc = "getTextContent"
    /\ \/ \E items \in DocumentOf(p).contents :
             FinishPage(p, ParsedPage(call[p].pageIndex, items))
       \/ \E error \in DocumentOf(p).pageFaults :
                FinishPage(p, FailedPage(call[p].pageIndex, error))

\* line 101: pdf.cleanup(), with what has happened by then
Cleanup(c) ==
    [c EXCEPT !.cleanups = @ + 1,
              !.cleanupSaw = <<[results |-> Len(c.pages),
                                pageRequests |-> c.pageRequests,
                                metadataRequests |-> c.metadataRequests,
                                returned |-> c.result # <<>>]>>]

\* lines 103-110
DocumentResult(c, f, meta) ==
    [title |-> Title(meta, f.name),
     author |-> Author(meta),
     totalPages |-> c.totalPages,
     pages |-> c.pages,
     rawSize |-> f.size,
     lastModified |-> f.lastModified]

ReturnedUnlessRejected(c, f, outcome) ==
    IF outcome.rejected
    THEN Throw(c, MetadataFailed)
    ELSE [Cleanup(c) EXCEPT !.pc = "done",
                            !.result = <<DocumentResult(c, f, titleMeta(outcome))>>]

\* lines 98-110: with the metadata (or what stands in for it) the title and
\* author are derived, the session is cleaned up and the result returned
Returned(c, f, outcome) ==
    [Cleanup(c) EXCEPT !.pc = "done",
                       !.metadataRejected = outcome.rejected,
                       !.metadataOutcome = <<outcome>>,
                       !.result = <<DocumentResult(c, f, titleMeta(outcome))>>]

\* lines 98-110: getMetadata settles
MetadataSettles(p) ==
    /\ call[p].pc = "getMetadata"
    /\ \E outcome \in DocumentOf(p).metaOutcomes :
          call' = [call EXCEPT ![p] = Returned(@, DocumentOf(p), outcome)]
    /\ UNCHANGED <<env, workerSrc, blobUrl, disableWorker, pdfWorkerReadyPromise, prov>>

\* ------------------------------------------------------ harvestTables
Digits == {"0", "1", "2", "3", "4", "5", "6", "7", "8", "9"}

\* the end of the run of characters of the set, or spaces, that starts at q
RECURSIVE RunEnd(_, _, _)
RunEnd(s, q, spaces) ==
    IF q > Len(s) THEN q
    ELSE IF (IF spaces THEN IsSpace(s[q]) ELSE s[q] = "\n")
         THEN RunEnd(s, q + 1, spaces)
         ELSE q

\* line 118: /(?<=\.)\s+|\n+/ tried at position q: where the match ends, q
\* when there is none; the first alternative is tried first
SeparatorEnd(s, q) ==
    IF q > 1 /\ s[q - 1] = "." /\ IsSpace(s[q]) THEN RunEnd(s, q, TRUE)
    ELSE IF s[q] = "\n" THEN RunEnd(s, q, FALSE)
    ELSE q

\* line 118: String.prototype.split, the piece from p being open and q the
\* position tried next
RECURSIVE SplitFrom(_, _, _)
SplitFrom(s, p, q) ==
    IF q > Len(s) THEN << SubSeq(s, p, Len(s)) >>
    ELSE LET e == SeparatorEnd(s, q)
         IN  IF e = q THEN SplitFrom(s, p, q + 1)
             ELSE << SubSeq(s, p, q - 1) >> \o SplitFrom(s, e, e)

\* line 118: page.text.split(...)
Lines(text) == SplitFrom(text, 1, 1)

\* line 119: /\d/.test(line) && /[:,]/.test(line)
IsCandidate(line) ==
    /\ \E i \in 1..Len(line) : line[i] \in Digits
    /\ \E i \in 1..Len(line) : line[i] \in {":", ","}

PageWithText(page) == page.text # <<>>

\* line 116: page.hasTextContent && page.text
Harvestable(page) == page.hasTextContent /\ page.text # <<>>

\* lines 118-123: the candidates of one page
RECURSIVE Candidates(_, _)
Candidates(page, lines) ==
    IF lines = <<>> THEN <<>>
    ELSE (IF IsCandidate(Head(lines))
          THEN << [page |-> page.index, content |-> Head(lines)] >>
          ELSE <<>>) \o Candidates(page, Tail(lines))

\* lines 114-125
RECURSIVE harvestTables(_)
harvestTables(pages) ==
    IF pages = <<>> THEN <<>>
    ELSE (IF Harvestable(Head(pages))
          THEN Candidates(Head(pages), Lines(Head(pages).text))
          ELSE <<>>) \o harvestTables(Tail(pages))

\* harvestTables is called with the pages at hand
Harvest ==
    /\ ~harvest.called
    /\ harvest' = [harvest EXCEPT !.called = TRUE,
                                  !.candidates = harvestTables(harvest.pages)]
    /\ UNCHANGED <<libPresent, canInlineWorker, workerSrc, blobUrl, disableWorker,
                   pdfWorkerReadyPromise, prov, file, onProgress, call,
                   callbackThrows>>

\* ------------------------------------------------------ specifications
\* harvestTables has not been called
NoHarvest == [pages |-> <<>>, called |-> FALSE, candidates |-> <<>>]

\* a file and the document in it: its page count, what its pages can hold,
\* what retrieving one of its pages can throw and what opening it can throw
Files(maxPages, contents, pageFaults, openFaults) ==
    UNION { { [numPages |-> n, contents |-> contents,
               pageFaults |-> pf, openFaults |-> openFaults] :
                pf \in IF n = 0 THEN {{}} ELSE {{}, pageFaults} } :
            n \in 0..maxPages }

\* the files with a name, a size, a date and what getMetadata can settle with
Named(files, names, metaOutcomes) ==
    { [name |-> n, size |-> Len(n), lastModified |-> 0,
       metaOutcomes |-> metaOutcomes,
       numPages |-> f.numPages, contents |-> f.contents,
       pageFaults |-> f.pageFaults, openFaults |-> f.openFaults] :
        f \in files, n \in names }

ReportPdf == <<"R", ".", "P", "D", "F">>
NotesPdf == <<"n", ".", "p", "d", "f">>

\* a resolution with title and author, and a rejection
SomeMetadata == { Resolved(Metadata(<<"T">>, <<"A">>)), Rejected }

\* the page before the first call: the library may be missing; a worker
\* location may have been set from outside; a local copy of the worker
\* script may be left from earlier; the library may or may not expose a
\* boolean disableWorker
InitEnv ==
    /\ pdfWorkerReadyPromise = "null"
    /\ prov = NoProvisioning
    /\ \/ /\ libPresent = FALSE
          /\ canInlineWorker = TRUE
          /\ workerSrc = Unset
          /\ blobUrl = Unset
          /\ disableWorker = "undefined"
       \/ /\ libPresent = TRUE
          /\ canInlineWorker = TRUE
          /\ workerSrc = ExternalWorker
          /\ blobUrl = Unset
          /\ disableWorker \in {"undefined", "false"}
       \/ /\ libPresent = TRUE
          /\ canInlineWorker \in BOOLEAN
          /\ workerSrc = Unset
          /\ blobUrl \in {Unset, CachedBlob}
          /\ disableWorker \in {"undefined", "false"}

\* what the pages of the first caller's document, and of the second's, hold
ReportPages == { << Item(<<" ", "a">>), Item(<<"b", "\n">>) >>, << >> }
NotesPages == { << Item(<<"c">>) >> }

SomeOpenThrown ==
    { Err(<<"Cannot", "load", "script", "at", "u">>),
      Err(<<"Invalid", "PDF", "structure">>) }

\* two callers, each with a small document of its own
Init ==
    /\ InitEnv
    /\ file \in { f \in [Procs -> Named(Files(MaxPagesConc, ReportPages, {Err(<<"boom">>)},
                                             SomeOpenThrown),
                                       {ReportPdf}, SomeMetadata)
                                 \cup
                                 Named(Files(MaxPagesConc, NotesPages, {Err(<<"boom">>)},
                                             SomeOpenThrown),
                                       {NotesPdf},
                                       {Resolved(Metadata(<<>>, <<"B">>))})] :
                      f[1].name = ReportPdf /\ f[2].name = NotesPdf }
    /\ onProgress = [p \in Procs |-> TRUE]
    /\ callbackThrows = [p \in Procs |-> FALSE]
    /\ harvest = NoHarvest
    /\ call = [p \in Procs |-> NewCall]

\* one caller (the other never calls), every combination of page outcomes
InitSolo ==
    /\ InitEnv
    /\ \E f \in Named(Files(MaxPages, PageContents, PageThrown, OpenThrown),
                       {ReportPdf}, SomeMetadata) :
          file = [p \in Procs |-> f]
    /\ \E supplied \in BOOLEAN, throws \in BOOLEAN :
          /\ throws => supplied
          /\ onProgress = [p \in Procs |-> supplied]
          /\ callbackThrows = [p \in Procs |-> throws]
    /\ harvest = NoHarvest
    /\ call = [p \in Procs |-> IF p = 1 THEN NewCall ELSE [NewCall EXCEPT !.pc = "absent"]]

\* one caller, long documents whose pages all parse
InitProgress ==
    /\ InitEnv
    /\ libPresent
    /\ disableWorker = "false"
    /\ blobUrl = Unset
    /\ \E f \in Named(Files(MaxProgressPages, {<< Item(<<"a">>) >>}, {},
                             {Err(<<"Cannot", "load", "script", "at", "u">>),
                              Err(<<"Invalid", "PDF", "structure">>)}),
                       {ReportPdf}, {Rejected}) :
          file = [p \in Procs |-> f]
    /\ onProgress = [p \in Procs |-> TRUE]
    /\ callbackThrows = [p \in Procs |-> FALSE]
    /\ harvest = NoHarvest
    /\ call = [p \in Procs |-> IF p = 1 THEN NewCall ELSE [NewCall EXCEPT !.pc = "absent"]]

\* file names, with and without the suffix
TitleNames ==
    { ReportPdf,
      NotesPdf,
      <<"a", ".", "p", "d", "f", ".", "P", "d", "F">>,
      <<"a", ".", "p", "d", "f", "x">>,
      <<"a", ".", "p", "d", "f", ".", "b">>,
      <<"a", "p", "d", "f">>,
      <<".", "p", "d", "f">>,
      <<"p", "d", "f">> }

\* what getMetadata can settle with
AllMetadata ==
    { Resolved(Metadata(<<"T">>, <<"A">>)),
      Resolved(Metadata(<<>>, <<"A">>)),
      Resolved(Metadata(<<"T">>, <<>>)),
      Resolved(EmptyMetadata),
      Resolved(NoInfoMetadata),
      Resolved(NullMetadata),
      Rejected }

\* one caller, files of every name, every metadata outcome
InitTitle ==
    /\ InitEnv
    /\ libPresent
    /\ disableWorker = "false"
    /\ \E f \in Named(Files(MaxPagesConc, {<< Item(<<"a">>) >>}, {},
                             {Err(<<"Cannot", "load", "script", "at", "u">>)}),
                       TitleNames, AllMetadata) :
          file = [p \in Procs |-> f]
    /\ onProgress = [p \in Procs |-> FALSE]
    /\ callbackThrows = [p \in Procs |-> FALSE]
    /\ harvest = NoHarvest
    /\ call = [p \in Procs |-> IF p = 1 THEN NewCall ELSE [NewCall EXCEPT !.pc = "absent"]]

HarvestPage(index, text, hasTextContent) ==
    [index |-> index, text |-> text, hasTextContent |-> hasTextContent]

\* pages that harvestTables can be given
HarvestPages ==
    { HarvestPage(0, <<"R", ":", " ", "1", ".", " ", "N", ".">>, TRUE),
      HarvestPage(1, <<"1", ",", "2", "\n", "\n", "3", ":", "4">>, TRUE),
      HarvestPage(2, <<"a", "1", "\n", "b", ":">>, TRUE),
      HarvestPage(3, <<"1", ":", ".", " ", " ", "\n", "2", ",">>, TRUE),
      HarvestPage(4, <<>>, TRUE),
      HarvestPage(5, <<"1", ":">>, FALSE),
      HarvestPage(6, <<"1", ".", "5", ":", " ", "a">>, TRUE),
      HarvestPage(7, <<"1", ",", " ", "\n", "2">>, TRUE),
      HarvestPage(8, <<"a", ".", "\n", "1", ":">>, TRUE),
      HarvestPage(9, <<"1", ":", " ", "2">>, TRUE) }

RECURSIVE SeqsUpTo(_, _)
SeqsUpTo(S, n) ==
    IF n = 0 THEN { <<>> }
    ELSE SeqsUpTo(S, n - 1) \cup
         { Append(q, x) : q \in { r \in SeqsUpTo(S, n - 1) : Len(r) = n - 1 }, x \in S }

\* no extraction; some pages to harvest
InitHarvest ==
    /\ pdfWorkerReadyPromise = "null"
    /\ prov = NoProvisioning
    /\ libPresent = TRUE
    /\ canInlineWorker = TRUE
    /\ workerSrc = Unset
    /\ blobUrl = Unset
    /\ disableWorker = "false"
    /\ \E f \in Named(Files(0, {}, {}, {}), {ReportPdf}, {Rejected}) :
          file = [p \in Procs |-> f]
    /\ onProgress = [p \in Procs |-> FALSE]
    /\ callbackThrows = [p \in Procs |-> FALSE]
    /\ call = [p \in Procs |-> [NewCall EXCEPT !.pc = "absent"]]
    /\ \E pages \in SeqsUpTo(HarvestPages, MaxHarvestPages) :
          harvest = [pages |-> pages, called |-> FALSE, candidates |-> <<>>]

Next ==
    \/ FetchSettles
    \/ ScriptSettles
    \/ \E p \in Procs :
          \/ Call(p)
          \/ ReadFile(p)
          \/ BytesSettle(p)
          \/ OpenSettles(p)
          \/ RetrySettles(p)
          \/ GetPageSettles(p)
          \/ GetTextContentSettles(p)
          \/ MetadataSettles(p)

Spec == Init /\ [][Next]_vars

SpecSolo == InitSolo /\ [][Next]_vars

SpecProgress == InitProgress /\ [][Next]_vars

SpecTitle == InitTitle /\ [][Next]_vars

NextHarvest == Harvest

SpecHarvest == InitHarvest /\ [][NextHarvest]_vars

\* --------------------------------------------------------------- claims
Started(p) == call[p].pc \notin {"idle", "absent"}

\* C1: starting from an unset worker location, however many calls are made
\* and however they interleave, the provisioning closure is started exactly
\* once and fetch is called at most once (exactly once where the worker can
\* be inlined); every caller that has to wait waits on that one promise.
C1_SingleProvisioning ==
    /\ prov.starts <= 1
    /\ prov.fetchCalls <= 1
    /\ (libPresent /\ workerSrc # ExternalWorker /\ \E p \in Procs : Started(p))
          => /\ prov.starts = 1
             /\ pdfWorkerReadyPromise # "null"
             /\ canInlineWorker => prov.fetchCalls = 1
    /\ \A p \in Procs : call[p].pc = "awaitWorker" => pdfWorkerReadyPromise # "null"

\* both callers wait on the one fetch in flight
C1_Witness ==
    /\ \A p \in Procs : call[p].pc = "awaitWorker"
    /\ prov.pc = "fetching"
    /\ prov.fetchCalls = 1

\* C2: once provisioning has completed after a failed fetch, the worker
\* location is the cached local resource if there is one and the remote URL
\* otherwise; it is not unset.
C2_FallbackAlwaysSet ==
    prov.outcome = "failed" =>
        /\ pdfWorkerReadyPromise = "resolved"
        /\ workerSrc # Unset
        /\ workerSrc = (IF blobUrl = CachedBlob THEN CachedBlob ELSE PDF_WORKER_SOURCE)

\* the fetch failed with no cached resource, and a caller has gone on
C2_Witness ==
    /\ prov.outcome = "failed"
    /\ workerSrc = PDF_WORKER_SOURCE
    /\ \E p \in Procs : call[p].pc = "readBytes"

\* C3: a call made while a worker location is configured returns from
\* ensurePdfWorker without throwing and leaves the worker location, the
\* cached resource, the readiness promise and the fetch count as they were.
C3_ConfiguredIsNoOp ==
    [][\A p \in Procs :
          (/\ libPresent
           /\ workerSrc # Unset
           /\ call[p].pc \in Startable
           /\ call'[p].pc \notin Startable)
          => /\ call'[p].pc = "ensureReturned"
             /\ call'[p].thrown = <<>>
             /\ UNCHANGED <<workerSrc, blobUrl, pdfWorkerReadyPromise, prov>>]_vars

\* a call that found the location set from outside, nothing provisioned
C3_Witness ==
    /\ workerSrc = ExternalWorker
    /\ \E p \in Procs : call[p].pc = "ensureReturned"
    /\ pdfWorkerReadyPromise = "null"
    /\ prov.fetchCalls = 0

\* C4: with the library absent every call fails at once with the
\* library-missing error: no fetch, no readiness promise, no read of the
\* input, no document open.
C4_LibraryMissingFailsFast ==
    ~libPresent =>
        /\ prov = NoProvisioning
        /\ pdfWorkerReadyPromise = "null"
        /\ workerSrc = Unset
        /\ \A p \in Procs :
              /\ call[p].pc \in {"idle", "absent", "failed"}
              /\ call[p].pc = "failed" => call[p].thrown = <<LibraryMissing>>
              /\ ~call[p].bytesRead
              /\ call[p].openAttempts = 0

\* both callers have called with the library absent
C4_Witness ==
    /\ ~libPresent
    /\ \A p \in Procs : call[p].pc = "failed" /\ call[p].thrown = <<LibraryMissing>>

\* C5: the result of an extraction of an N-page document has totalPages N
\* and N pages, pages[i].index being i (zero-based).
C5_PagesMatchDocument ==
    \A p \in Procs :
        call[p].pc = "done" =>
            LET r == call[p].result[1]
            IN  /\ r.totalPages = file[p].numPages
                /\ Len(r.pages) = file[p].numPages
                /\ \A i \in 1..Len(r.pages) : r.pages[i].index = i - 1

\* a document of several pages returned with a failed and a parsed page
C5_Witness ==
    \E p \in Procs :
        /\ call[p].pc = "done"
        /\ file[p].numPages >= 2
        /\ \E i, j \in 1..Len(call[p].result[1].pages) :
              /\ call[p].result[1].pages[i].hasError
              /\ ~call[p].result[1].pages[j].hasError

\* C6: a page whose getPage or getTextContent throws, whatever is thrown,
\* gets a result with text '', hasTextContent false and a non-empty error,
\* and the pages after it are still requested.
C6_FailedPageCarriesError ==
    \A p \in Procs :
        /\ \A i \in 1..Len(call[p].pages) :
              call[p].pages[i].hasError =>
                  /\ call[p].pages[i].text = <<>>
                  /\ ~call[p].pages[i].hasTextContent
                  /\ call[p].pages[i].error # <<>>
        /\ call[p].pc \in {"getMetadata", "done"} =>
              /\ call[p].pageRequests = call[p].totalPages
              /\ Len(call[p].pages) = call[p].totalPages

Percents(p) == [k \in 1..Len(call[p].progress) |-> call[p].progress[k].percent]

\* C7 as stated: for N >= 1 pages onProgress is called exactly N times with
\* strictly increasing values that end at 100.
C7_StrictlyIncreasing ==
    \A p \in Procs :
        (call[p].pc = "done" /\ onProgress[p] /\ file[p].numPages >= 1) =>
            /\ Len(Percents(p)) = file[p].numPages
            /\ \A k \in 1..(Len(Percents(p)) - 1) : Percents(p)[k] < Percents(p)[k + 1]
            /\ Percents(p)[Len(Percents(p))] = 100

\* C7 as amended: for N >= 1 pages onProgress is called exactly N times with
\* non-decreasing values that end at 100; the values are strictly increasing
\* when N <= 100.
C7_NonDecreasingTo100 ==
    \A p \in Procs :
        (call[p].pc = "done" /\ onProgress[p] /\ file[p].numPages >= 1) =>
            /\ Len(Percents(p)) = file[p].numPages
            /\ \A k \in 1..(Len(Percents(p)) - 1) : Percents(p)[k] <= Percents(p)[k + 1]
            /\ Percents(p)[Len(Percents(p))] = 100
            /\ file[p].numPages <= 100 =>
                  \A k \in 1..(Len(Percents(p)) - 1) : Percents(p)[k] < Percents(p)[k + 1]

\* an extraction of more than 100 pages that reported one value twice
C7_Witness ==
    \E p \in Procs :
        /\ call[p].pc = "done"
        /\ file[p].numPages > 100
        /\ Len(Percents(p)) = file[p].numPages
        /\ \E k \in 1..(Len(Percents(p)) - 1) : Percents(p)[k] = Percents(p)[k + 1]

\* C8: onProgress is called once after each page, failed or parsed, when
\* that page's result has been recorded and the next page has not been
\* requested; the values are integers in 0..100, never decrease, and the
\* last page's value is 100.
C8_ProgressAfterEachPage ==
    \A p \in Procs :
        onProgress[p] =>
            /\ Len(call[p].progress) = Len(call[p].pages)
            /\ \A k \in 1..Len(call[p].progress) :
                  /\ call[p].progress[k].resultsSeen = k
                  /\ call[p].progress[k].requestsSeen = k
                  /\ Percents(p)[k] \in 0..100
                  /\ k > 1 => Percents(p)[k - 1] <= Percents(p)[k]
            /\ (call[p].pc \in {"getMetadata", "done"} /\ call[p].totalPages >= 1) =>
                  /\ Len(call[p].progress) = call[p].totalPages
                  /\ Percents(p)[call[p].totalPages] = 100

\* a finished extraction that reported a failed page and then a parsed one
C8_Witness ==
    \E p \in Procs :
        /\ call[p].pc = "done"
        /\ onProgress[p]
        /\ Len(call[p].progress) >= 2
        /\ call[p].pages[1].hasError
        /\ ~call[p].pages[2].hasError

WorkerInitErrors ==
    { Err(<<"Setting", "up", "fake", "worker", "failed", ":", "x">>),
      Err(<<"Error", ":", "SETTING", "UP", "FAKE", "WORKER", "FAILED">>),
      Err(<<"Cannot", "load", "script", "at", "u">>),
      NonErr(<<"cannot", "load", "script">>) }

\* C10: the open is attempted at most twice; the second attempt follows a
\* first failure that was a worker-initialization error; any other first
\* failure is thrown to the caller after one attempt; a failed retry is
\* thrown to the caller, whatever its kind, and nothing is attempted after it.
C10_AtMostOneRetry ==
    \A p \in Procs :
        LET c == call[p]
        IN  /\ c.openAttempts <= 2
            /\ Len(c.openErrors) <= c.openAttempts
            /\ c.openAttempts = 2 =>
                  Len(c.openErrors) >= 1 /\ c.openErrors[1] \in WorkerInitErrors
            /\ (Len(c.openErrors) = 1 /\ c.openErrors[1] \in WorkerInitErrors) =>
                  c.openAttempts = 2
            /\ (Len(c.openErrors) = 1 /\ c.openErrors[1] \notin WorkerInitErrors) =>
                  /\ c.openAttempts = 1
                  /\ c.pc = "failed"
                  /\ c.thrown = <<c.openErrors[1]>>
            /\ Len(c.openErrors) = 2 =>
                  /\ c.openAttempts = 2
                  /\ c.pc = "failed"
                  /\ c.thrown = <<c.openErrors[2]>>

\* a retry that failed with a worker-initialization error again
C10_Witness ==
    \E p \in Procs :
        /\ call[p].pc = "failed"
        /\ Len(call[p].openErrors) = 2
        /\ call[p].openErrors[2] \in WorkerInitErrors
        /\ call[p].openAttempts = 2

InLoopOrBeyond == {"getPage", "getTextContent", "getMetadata", "done"}

LastOpenError(c) == c.openErrors[Len(c.openErrors)]

\* C11 as stated: the call throws only for a missing library or a failed
\* open; once the open has succeeded it never throws and returns a result
\* with all N pages.
C11_ThrowsOnlyForLibraryOrOpen ==
    \A p \in Procs :
        LET c == call[p]
        IN  /\ c.pc = "failed" =>
                  /\ ~c.opened
                  /\ \/ c.thrown = <<LibraryMissing>>
                     \/ c.openErrors # <<>> /\ c.thrown = <<LastOpenError(c)>>
            /\ c.opened => c.pc \in InLoopOrBeyond
            /\ c.result # <<>> =>
                  c.pc = "done" /\ Len(c.result[1].pages) = file[p].numPages

\* C11 as amended: the call throws only for a missing library, a rejected
\* read of the input bytes, a failed open, or an exception thrown by the
\* caller's onProgress; page and metadata failures never make it throw, so
\* after a successful open it returns a result with all N pages unless
\* onProgress throws, and it never returns a partial result.
C11_ThrowsOnlyBeforeOpenOrFromCallback ==
    \A p \in Procs :
        LET c == call[p]
        IN  /\ c.pc = "failed" =>
                  \/ /\ ~c.opened
                     /\ \/ c.thrown = <<LibraryMissing>>
                        \/ c.thrown = <<ReadFailed>> /\ c.openAttempts = 0
                        \/ c.openErrors # <<>> /\ c.thrown = <<LastOpenError(c)>>
                  \/ /\ c.opened
                     /\ c.thrown = <<CallbackFailed>>
                     /\ onProgress[p] /\ callbackThrows[p]
                     /\ Len(c.progress) = Len(c.pages) /\ Len(c.pages) >= 1
            /\ (c.opened /\ ~callbackThrows[p]) => c.pc \in InLoopOrBeyond
            /\ c.result # <<>> =>
                  c.pc = "done" /\ Len(c.result[1].pages) = file[p].numPages

\* an extraction returned although a page and the metadata read failed
C11_Witness ==
    \E p \in Procs :
        /\ call[p].pc = "done"
        /\ call[p].metadataRejected
        /\ Len(call[p].pages) >= 2
        /\ call[p].pages[1].hasError

\* C15: an open is issued only with the worker location configured and the
\* provisioning, if one was started, complete.
C15_OpenOnlyAfterProvisioning ==
    \A p \in Procs :
        /\ \A i \in 1..Len(call[p].workerAtOpen) : call[p].workerAtOpen[i] # Unset
        /\ call[p].openAttempts >= 1 =>
              /\ workerSrc # Unset
              /\ pdfWorkerReadyPromise # "pending"
              /\ prov.pc \in {"none", "done"}

\* both callers have issued their open after the one inlining
C15_Witness ==
    /\ \A p \in Procs : call[p].pc = "open1" /\ call[p].workerAtOpen = <<NewBlob>>
    /\ prov.fetchCalls = 1

\* C16: pages are requested in the order 1, 2, ..., N; a page is requested
\* only when every earlier one has settled, so at most one retrieval is
\* outstanding; results are appended in strictly increasing index order.
C16_PagesInOrderOneAtATime ==
    \A p \in Procs :
        LET c == call[p]
            outstanding == Len(c.requested) - Len(c.pages)
        IN  /\ c.requested = [k \in 1..Len(c.requested) |-> k]
            /\ Len(c.requested) <= c.totalPages
            /\ outstanding \in {0, 1}
            /\ outstanding = 1 <=> c.pc \in {"getPage", "getTextContent"}
            /\ \A i, j \in 1..Len(c.pages) :
                  i < j => c.pages[i].index < c.pages[j].index
            /\ c.pc \in {"getMetadata", "done"} => Len(c.requested) = c.totalPages

\* the third page is being retrieved, the first two have settled
C16_Witness ==
    \E p \in Procs :
        /\ call[p].pc = "getTextContent"
        /\ call[p].requested = <<1, 2, 3>>
        /\ Len(call[p].pages) = 2
        /\ call[p].pages[1].hasError

\* C17: an extraction that opened a session and has ended has called cleanup
\* exactly once, after every page was retrieved and the metadata read, and
\* before the result was returned.
C17_SessionReleasedOnce ==
    \A p \in Procs :
        LET c == call[p]
        IN  /\ c.cleanups <= 1
            /\ (c.opened /\ c.pc \in {"done", "failed"}) => c.cleanups = 1
            /\ c.cleanups = 1 =>
                  /\ c.pc = "done"
                  /\ c.cleanupSaw[1].results = c.totalPages
                  /\ c.cleanupSaw[1].pageRequests = c.totalPages
                  /\ c.cleanupSaw[1].metadataRequests = 1
                  /\ ~c.cleanupSaw[1].returned
                  /\ c.metadataRequests = 1

\* C18: in every page result hasTextContent is true exactly when text is
\* non-empty; a failed page has empty text and hasTextContent false; a parsed
\* page carries no error, also when its normalized text is empty.
C18_HasTextContentIffText ==
    \A p \in Procs :
        \A i \in 1..Len(call[p].pages) :
            LET r == call[p].pages[i]
            IN  /\ r.hasTextContent <=> r.text # <<>>
                /\ r.hasError => r.text = <<>> /\ ~r.hasTextContent
                /\ ~r.hasError => r.error = <<>>

\* a parsed page with empty text beside a parsed page with text
C18_Witness ==
    \E p \in Procs :
        /\ Len(call[p].pages) >= 2
        /\ ~call[p].pages[1].hasError
        /\ call[p].pages[1].text = <<>>
        /\ call[p].pages[2].hasTextContent

\* C20: the worker-disable switch changes only in the step that issues the
\* retry after a worker-initialization failure, and only from off to on; a
\* first open that succeeds or fails otherwise leaves it alone; once on it
\* stays on.
C20_SwitchOnlyTurnedOn ==
    [][/\ disableWorker' # disableWorker =>
             /\ disableWorker = "false"
             /\ disableWorker' = "true"
             /\ \E p \in Procs :
                   /\ call[p].pc = "open1"
                   /\ call'[p].pc = "open2"
                   /\ LastOpenError(call'[p]) \in WorkerInitErrors
       /\ disableWorker = "true" => disableWorker' = "true"
       /\ \A p \in Procs :
             (call[p].pc = "open1" /\ call'[p].pc \in {"getPage", "getMetadata", "failed"})
                => disableWorker' = disableWorker]_vars

\* a later extraction ran, and ended, with the switch already on
C20_Witness ==
    \E p \in Procs :
        /\ disableWorker = "true"
        /\ call[p].pc = "done"
        /\ call[p].switchAtOpen = <<"true">>

\* what is left of each file name of the model when one trailing ".pdf", in
\* any case, is removed
ExpectedStripped(name) ==
    CASE name = <<"R", ".", "P", "D", "F">> -> <<"R">>
      [] name = <<"n", ".", "p", "d", "f">> -> <<"n">>
      [] name = <<"a", ".", "p", "d", "f", ".", "P", "d", "F">> -> <<"a", ".", "p", "d", "f">>
      [] name = <<".", "p", "d", "f">> -> <<>>
      [] OTHER -> name

MetadataOf(c) == c.metadataOutcome[1]

\* C12: when getMetadata rejects, the result is returned all the same, its
\* title the file name without its trailing .pdf, its author 'Unknown
\* author', its pages the pages that were extracted.
C12_MetadataFailureGivesDefaults ==
    \A p \in Procs :
        (call[p].metadataOutcome # <<>> /\ MetadataOf(call[p]).rejected) =>
            /\ call[p].pc = "done"
            /\ call[p].result # <<>>
            /\ call[p].result[1].title = ExpectedStripped(file[p].name)
            /\ call[p].result[1].author = <<"Unknown author">>
            /\ call[p].result[1].pages = call[p].pages
            /\ Len(call[p].result[1].pages) = file[p].numPages

\* getMetadata rejected for Report.PDF's one page
C12_Witness ==
    \E p \in Procs :
        /\ call[p].pc = "done"
        /\ MetadataOf(call[p]) = Rejected
        /\ file[p].name = ReportPdf
        /\ call[p].result[1].title = <<"R">>
        /\ Len(call[p].result[1].pages) = 1

\* the title the metadata carries: none when the read was rejected, resolved
\* with nothing, or with no info
GivenTitle(outcome) ==
    IF outcome.rejected \/ outcome.value.isNull \/ ~outcome.value.hasInfo
    THEN <<>>
    ELSE outcome.value.title

\* C13: the title is the metadata title when there is one and it is not
\* empty; otherwise it is the file name with one trailing '.pdf', in any
\* case, removed, and only when it is at the end.
C13_TitleFromMetadataOrFileName ==
    \A p \in Procs :
        call[p].pc = "done" =>
            call[p].result[1].title =
                (IF GivenTitle(MetadataOf(call[p])) # <<>>
                 THEN GivenTitle(MetadataOf(call[p]))
                 ELSE ExpectedStripped(file[p].name))

\* a.pdf.PdF without a metadata title lost one suffix only
C13_Witness ==
    \E p \in Procs :
        /\ call[p].pc = "done"
        /\ MetadataOf(call[p]) = Resolved(Metadata(<<>>, <<"A">>))
        /\ file[p].name = <<"a", ".", "p", "d", "f", ".", "P", "d", "F">>
        /\ call[p].result[1].title = <<"a", ".", "p", "d", "f">>

\* the lines of each page text of the model that hold a digit and one of ':'
\* and ',', in line order
ExpectedLines(text) ==
    CASE text = <<"R", ":", " ", "1", ".", " ", "N", ".">> ->
              << <<"R", ":", " ", "1", ".">> >>
      [] text = <<"1", ",", "2", "\n", "\n", "3", ":", "4">> ->
              << <<"1", ",", "2">>, <<"3", ":", "4">> >>
      [] text = <<"a", "1", "\n", "b", ":">> -> << >>
      [] text = <<"1", ":", ".", " ", " ", "\n", "2", ",">> ->
              << <<"1", ":", ".">>, <<"2", ",">> >>
      [] text = <<"1", ":">> -> << <<"1", ":">> >>
      [] text = <<"1", ".", "5", ":", " ", "a">> -> << <<"1", ".", "5", ":", " ", "a">> >>
      [] text = <<"1", ",", " ", "\n", "2">> -> << <<"1", ",", " ">> >>
      [] text = <<"a", ".", "\n", "1", ":">> -> << <<"1", ":">> >>
      [] text = <<"1", ":", " ", "2">> -> << <<"1", ":", " ", "2">> >>
      [] OTHER -> << >>

RECURSIVE ExpectedCandidates(_)
ExpectedCandidates(pages) ==
    IF pages = <<>> THEN <<>>
    ELSE LET page == Head(pages)
             lines == IF page.hasTextContent /\ page.text # <<>>
                      THEN ExpectedLines(page.text)
                      ELSE <<>>
         IN  [i \in 1..Len(lines) |-> [page |-> page.index, content |-> lines[i]]]
                \o ExpectedCandidates(Tail(pages))

\* C14: harvestTables returns one candidate {page, content} for each line
\* that holds a digit and one of ':' and ',', of the pages whose
\* hasTextContent is true and whose text is not empty, in page order and
\* then line order; a text is cut after a period followed by whitespace and
\* at runs of newlines.
C14_OneCandidatePerLine ==
    harvest.called => harvest.candidates = ExpectedCandidates(harvest.pages)

\* a page without hasTextContent was skipped and the page after it, cut after
\* a period and at a newline, gave two candidates
C14_Witness ==
    /\ harvest.called
    /\ Len(harvest.pages) = 2
    /\ harvest.pages[1].index = 5
    /\ harvest.pages[2].index = 3
    /\ harvest.candidates = << [page |-> 3, content |-> <<"1", ":", ".">>],
                                [page |-> 3, content |-> <<"2", ",">>] >>

\* each caller's document, as the model hands it out
OwnName(p) == IF p = 1 THEN <<"R", ".", "P", "D", "F">> ELSE <<"n", ".", "p", "d", "f">>
OwnTitles(p) == IF p = 1 THEN { <<"T">>, <<"R">> } ELSE { <<"n">> }
OwnAuthors(p) == IF p = 1 THEN { <<"A">>, <<"Unknown author">> } ELSE { <<"B">> }
OwnTexts(p) == IF p = 1 THEN { <<"a", " ", "b">>, <<>> } ELSE { <<"c">>, <<>> }

\* C19: of two concurrent extractions of different documents each builds its
\* result from its own document only and reports its own progress only, and
\* the worker is provisioned once for both.
C19_ConcurrentCallsIsolated ==
    /\ prov.starts <= 1
    /\ prov.fetchCalls <= 1
    /\ \A p \in Procs :
          LET c == call[p]
              N == file[p].numPages
          IN  /\ c.opened => c.totalPages = N
              /\ Len(c.pages) <= N
              /\ \A i \in 1..Len(c.pages) :
                    c.pages[i].index = i - 1 /\ c.pages[i].text \in OwnTexts(p)
              /\ Len(c.progress) <= Len(c.pages)
              /\ \A k \in 1..Len(c.progress) :
                    c.progress[k].percent = (200 * k + N) \div (2 * N)
              /\ c.pc = "done" =>
                    /\ c.result[1].title \in OwnTitles(p)
                    /\ c.result[1].author \in OwnAuthors(p)
                    /\ c.result[1].rawSize = Len(OwnName(p))
                    /\ c.result[1].totalPages = N
                    /\ c.result[1].pages = c.pages
                    /\ Len(c.pages) = N
                    /\ Len(c.progress) = N

\* both extractions are under way after one provisioning, the first reading
\* its page, the second past its own
C19_Witness ==
    /\ prov.starts = 1
    /\ call[1].pc = "getTextContent"
    /\ call[2].pc = "getMetadata"
    /\ Len(call[2].pages) = 1
    /\ call[2].pages[1].text = <<"c">>
    /\ call[2].progress[1].percent = 100

====
